---- MODULE Spec2Model ----
(***************************************************************************)
(* Model of the two quiz extractors of the repository:                     *)
(*   variant A  src/unnamed/part_000         (strict: answered questions)   *)
(*   variant B  src/qs_extract_quizbank_all.js (tolerant, course registry)  *)
(*                                                                         *)
(* Two specifications share the module.                                    *)
(*   Spec      the files: runs of both programs against the file system    *)
(*             (arguments, directories, assets/courses.json, the HTML and  *)
(*             JSON files); the JSON file's content is not tracked here.   *)
(*   SpecWalk  the content: the questionElements.forEach walk of one       *)
(*             loaded document and the records it writes.                  *)
(* Text is a sequence of tokens; " " is the white-space token, <<>> the    *)
(* empty string.                                                           *)
(***************************************************************************)
EXTENDS Integers, Sequences, FiniteSets, TLC

VARIABLES
    \* ---- the files (Spec) ----
    prog,        \* which program the current/last process runs: "A", "B", "-"
    pc,          \* the statement the process is at; between runs "exited", or
                 \* "idle" once the files were touched since the last exit
    courseFolder,    \* process.argv[2] of variant B
    checkpointName,  \* process.argv[3] of variant B, process.argv[2] of variant A
    dirs,        \* directories of variant B that exist: <<course, "html"|"json">>
    registry,    \* assets/courses.json: [exists, courses]
    htmlFiles,   \* variant B: <<course, checkpoint>> with an HTML file
    jsonFiles,   \* variant B: <<course, checkpoint>> with a written JSON file
    htmlA,       \* variant A: checkpoints with ./assets/html/<name>.html
    jsonA,       \* variant A: checkpoints with ./assets/json/<name>.json
    exitCode,    \* exit status of the last process (-1: none has exited)
    stderr,      \* what the last process reported: "", "usage", "notfound"
    pre,         \* the files as they were when the current/last process started
    seeded,      \* TRUE when courses.json was hand-written before the first run
    extracted,   \* the current/last process has run its extraction
    \* ---- the content (SpecWalk) ----
    variant,     \* "A" or "B"
    doc,         \* document.querySelectorAll('.display_question'), in order
    idx,         \* number of elements forEach has visited
    faulted,     \* per visited element: did its callback throw
    pushed,      \* per visited element: records its callback appended
    extractedQuestions,
    outFile,     \* the JSON file: [written, content]
    wpc          \* "walk", "written", "crashed"

fileVars == <<prog, pc, courseFolder, checkpointName, dirs, registry, htmlFiles,
              jsonFiles, htmlA, jsonA, exitCode, stderr, pre, seeded, extracted>>
walkVars == <<variant, doc, idx, faulted, pushed, extractedQuestions, outFile, wpc>>
vars == <<fileVars, walkVars>>

----------------------------------------------------------------------------
(* Command-line values.  An absent argument and "" both fail `!x`.         *)
Missing == <<>>
CourseIds == { <<"dev", "-", "net">>, <<"ccna">> }
CheckpointIds == { <<"checkpoint", "_", "1">>, <<"final">> }

\* c => c.toUpperCase() on the first letter of a word
Cap(w) ==
    CASE w = "dev" -> "Dev"
      [] w = "net" -> "Net"
      [] w = "ccna" -> "Ccna"
      [] w = "checkpoint" -> "Checkpoint"
      [] w = "final" -> "Final"
      [] OTHER -> w

\* .replace(/-/g,' ').replace(/_/g,' ').replace(/\b\w/g, c => c.toUpperCase())
TitleCase(s) ==
    [k \in DOMAIN s |-> IF s[k] \in {"-", "_"} THEN " " ELSE Cap(s[k])]

RECURSIVE MaxOf(_)
\* Math.max(0, ...ids)
MaxOf(ids) ==
    IF ids = <<>> THEN 0
    ELSE LET m == MaxOf(Tail(ids)) IN IF Head(ids) > m THEN Head(ids) ELSE m

NoRegistry == [exists |-> FALSE, courses |-> <<>>]

\* fs.existsSync(coursesFile) ? JSON.parse(readFileSync) : []
ReadCourses(reg) == IF reg.exists THEN reg.courses ELSE <<>>

CourseExistsByName(courses, cf) == \E i \in DOMAIN courses : courses[i].name = cf

\* courses.some(c => c.id === courseFolder)
CourseExists(courses, cf) == \E i \in DOMAIN courses : courses[i].id = cf

\* ensureCourseStructure: the directories and the registry it leaves
ensureCourseStructure(d, reg, cf) ==
    LET courses == ReadCourses(reg)
        newCourse == [id |-> cf, name |-> TitleCase(cf), modules |-> <<>>]
    IN  [dirs |-> d \cup {<<cf, "html">>, <<cf, "json">>},
         registry |-> IF CourseExists(courses, cf) THEN reg
                      ELSE [exists |-> TRUE, courses |-> Append(courses, newCourse)]]

\* module.checkpoints && module.checkpoints.includes(checkpointName), any module
CheckpointExists(modules, ck) ==
    \E j \in DOMAIN modules :
        \E n \in DOMAIN modules[j].checkpoints : modules[j].checkpoints[n] = ck

NextIdByCount(modules) == Len(modules) + 1

\* Math.max(0, ...modules.map(m => m.id || 0)) + 1
NextId(modules) == MaxOf([j \in DOMAIN modules |-> modules[j].id]) + 1

\* the first course whose id is courseFolder (the loop breaks there); 0 if none
FirstCourse(courses, cf) ==
    IF CourseExists(courses, cf)
    THEN CHOOSE i \in DOMAIN courses :
            /\ courses[i].id = cf
            /\ \A h \in 1..(i - 1) : courses[h].id # cf
    ELSE 0

\* updateCourseModule: the registry it leaves
updateCourseModule(reg, cf, ck) ==
    IF ~reg.exists THEN reg
    ELSE LET courses == reg.courses
             i == FirstCourse(courses, cf)
         IN  IF i = 0 THEN reg
             ELSE IF CheckpointExists(courses[i].modules, ck) THEN reg
             ELSE LET modules == courses[i].modules
                      newModule == [id |-> NextId(modules),
                                    name |-> TitleCase(ck),
                                    checkpoints |-> <<ck>>]
                  IN  [exists |-> TRUE,
                       courses |-> [courses EXCEPT
                                      ![i].modules = Append(modules, newModule)]]

ArgsMissingBoth(cf, ck) == cf = Missing /\ ck = Missing

\* if (!courseFolder || !checkpointName)
ArgsMissingB(cf, ck) == cf = Missing \/ ck = Missing

\* if (!checkpointName)
ArgsMissingA(ck) == ck = Missing

StepOrderBUpdateFirst == <<"ensure", "check", "extract", "update", "write", "summary">>

\* variant B's statements after the argument check, in program order
StepOrderB == <<"ensure", "check", "extract", "write", "update", "summary">>

\* variant A's statements after the argument check, in program order
StepOrderA == <<"check", "extract", "write", "summary">>

StepOrder == IF prog = "A" THEN StepOrderA ELSE StepOrderB

\* the statement that follows `step` in the running program
After(step) ==
    LET i == CHOOSE k \in DOMAIN StepOrder : StepOrder[k] = step
    IN  StepOrder[i + 1]

Snapshot == [dirs |-> dirs, registry |-> registry, jsonFiles |-> jsonFiles, jsonA |-> jsonA]

\* a registry somebody wrote by hand: one course, one module with id 2
EditedRegistry ==
    [exists |-> TRUE,
     courses |-> << [id |-> <<"ccna">>, name |-> <<"CCNA">>,
                     modules |-> << [id |-> 2, name |-> <<"Intro">>,
                                     checkpoints |-> << <<"final">>, <<"intro">> >>] >>] >>]

walkIdle ==
    /\ variant = "-" /\ doc = <<>> /\ idx = 0 /\ faulted = <<>> /\ pushed = <<>>
    /\ extractedQuestions = <<>> /\ outFile = [written |-> FALSE, content |-> <<>>]
    /\ wpc = "-"

Init ==
    /\ prog = "-" /\ pc = "idle"
    /\ courseFolder = Missing /\ checkpointName = Missing
    /\ seeded \in BOOLEAN
    /\ registry = IF seeded THEN EditedRegistry ELSE NoRegistry
    /\ dirs = {} /\ htmlFiles = {} /\ jsonFiles = {}
    /\ htmlA = {} /\ jsonA = {}
    /\ exitCode = -1 /\ stderr = "" /\ extracted = FALSE
    /\ pre = [dirs |-> dirs, registry |-> registry, jsonFiles |-> jsonFiles, jsonA |-> jsonA]
    /\ walkIdle

BetweenRuns == pc \in {"idle", "exited"}

\* somebody saves a quiz page as assets/<course>/html/<checkpoint>.html
PutHtmlB ==
    /\ BetweenRuns
    /\ \E cf \in CourseIds, ck \in CheckpointIds :
        /\ <<cf, ck>> \notin htmlFiles
        /\ htmlFiles' = htmlFiles \cup {<<cf, ck>>}
        /\ dirs' = dirs \cup {<<cf, "html">>}
    /\ pc' = "idle"
    /\ UNCHANGED <<prog, courseFolder, checkpointName, registry, jsonFiles,
                   htmlA, jsonA, exitCode, stderr, pre, seeded, extracted, walkVars>>

\* somebody saves a quiz page as ./assets/html/<checkpoint>.html
PutHtmlA ==
    /\ BetweenRuns
    /\ \E ck \in CheckpointIds :
        /\ ck \notin htmlA
        /\ htmlA' = htmlA \cup {ck}
    /\ pc' = "idle"
    /\ UNCHANGED <<prog, courseFolder, checkpointName, dirs, registry, htmlFiles,
                   jsonFiles, jsonA, exitCode, stderr, pre, seeded, extracted, walkVars>>

Exit(code, msg) ==
    /\ pc' = "exited" /\ exitCode' = code /\ stderr' = msg

\* node qs_extract_quizbank_all.js <course_folder> <checkpoint_name>: lines 6-13
StartB ==
    /\ BetweenRuns
    /\ \E cf \in CourseIds \cup {Missing}, ck \in CheckpointIds \cup {Missing} :
        /\ courseFolder' = cf /\ checkpointName' = ck
        /\ prog' = "B"
        /\ pre' = Snapshot
        /\ IF ArgsMissingB(cf, ck)
           THEN Exit(1, "usage")
           ELSE pc' = StepOrderB[1] /\ exitCode' = -1 /\ stderr' = ""
    /\ UNCHANGED <<dirs, registry, htmlFiles, jsonFiles, htmlA, jsonA, seeded, walkVars>>
    /\ extracted' = FALSE

\* const { htmlDir, jsonDir } = ensureCourseStructure(courseFolder)
EnsureB ==
    /\ prog = "B" /\ pc = "ensure"
    /\ LET r == ensureCourseStructure(dirs, registry, courseFolder)
       IN  dirs' = r.dirs /\ registry' = r.registry
    /\ pc' = After("ensure")
    /\ UNCHANGED <<prog, courseFolder, checkpointName, htmlFiles, jsonFiles, htmlA,
                   jsonA, exitCode, stderr, pre, seeded, extracted, walkVars>>

\* if (!fs.existsSync(htmlPath)) { ...; process.exit(1) }
CheckB ==
    /\ prog = "B" /\ pc = "check"
    /\ IF <<courseFolder, checkpointName>> \notin htmlFiles
       THEN Exit(1, "notfound")
       ELSE pc' = After("check") /\ UNCHANGED <<exitCode, stderr>>
    /\ UNCHANGED <<prog, courseFolder, checkpointName, dirs, registry, htmlFiles,
                   jsonFiles, htmlA, jsonA, pre, seeded, extracted, walkVars>>

\* readFileSync, JSDOM, the stats and the forEach walk (content: SpecWalk);
\* readFileSync of a missing file throws and ends the process
ExtractB ==
    /\ prog = "B" /\ pc = "extract"
    /\ IF <<courseFolder, checkpointName>> \notin htmlFiles
       THEN Exit(1, "")
       ELSE pc' = After("extract") /\ UNCHANGED <<exitCode, stderr>>
    /\ UNCHANGED <<prog, courseFolder, checkpointName, dirs, registry, htmlFiles,
                   jsonFiles, htmlA, jsonA, pre, seeded, walkVars>>
    /\ extracted' = TRUE

\* fs.writeFileSync(jsonPath, ...); it throws when jsonDir does not exist
WriteB ==
    /\ prog = "B" /\ pc = "write"
    /\ IF <<courseFolder, "json">> \notin dirs
       THEN Exit(1, "") /\ UNCHANGED jsonFiles
       ELSE /\ jsonFiles' = jsonFiles \cup {<<courseFolder, checkpointName>>}
            /\ pc' = After("write") /\ UNCHANGED <<exitCode, stderr>>
    /\ UNCHANGED <<prog, courseFolder, checkpointName, dirs, registry, htmlFiles,
                   htmlA, jsonA, pre, seeded, extracted, walkVars>>

\* updateCourseModule(courseFolder, checkpointName)
UpdateB ==
    /\ prog = "B" /\ pc = "update"
    /\ registry' = updateCourseModule(registry, courseFolder, checkpointName)
    /\ pc' = After("update")
    /\ UNCHANGED <<prog, courseFolder, checkpointName, dirs, htmlFiles, jsonFiles,
                   htmlA, jsonA, exitCode, stderr, pre, seeded, extracted, walkVars>>

\* the summary is printed and the process ends with status 0
SummaryB ==
    /\ prog = "B" /\ pc = "summary"
    /\ Exit(0, "")
    /\ UNCHANGED <<prog, courseFolder, checkpointName, dirs, registry, htmlFiles,
                   jsonFiles, htmlA, jsonA, pre, seeded, extracted, walkVars>>

\* node extractCheckpoint.js <name>: lines 6-12
StartA ==
    /\ BetweenRuns
    /\ \E ck \in CheckpointIds \cup {Missing} :
        /\ checkpointName' = ck /\ courseFolder' = Missing
        /\ prog' = "A"
        /\ pre' = Snapshot
        /\ IF ArgsMissingA(ck)
           THEN Exit(1, "usage")
           ELSE pc' = StepOrderA[1] /\ exitCode' = -1 /\ stderr' = ""
    /\ UNCHANGED <<dirs, registry, htmlFiles, jsonFiles, htmlA, jsonA, seeded, walkVars>>
    /\ extracted' = FALSE

\* if (!fs.existsSync(htmlPath)) { ...; process.exit(1) }
CheckA ==
    /\ prog = "A" /\ pc = "check"
    /\ IF checkpointName \notin htmlA
       THEN Exit(1, "notfound")
       ELSE pc' = After("check") /\ UNCHANGED <<exitCode, stderr>>
    /\ UNCHANGED <<prog, courseFolder, checkpointName, dirs, registry, htmlFiles,
                   jsonFiles, htmlA, jsonA, pre, seeded, extracted, walkVars>>

\* readFileSync, JSDOM, the stats and the forEach walk (content: SpecWalk)
ExtractA ==
    /\ prog = "A" /\ pc = "extract"
    /\ IF checkpointName \notin htmlA
       THEN Exit(1, "")
       ELSE pc' = After("extract") /\ UNCHANGED <<exitCode, stderr>>
    /\ UNCHANGED <<prog, courseFolder, checkpointName, dirs, registry, htmlFiles,
                   jsonFiles, htmlA, jsonA, pre, seeded, walkVars>>
    /\ extracted' = TRUE

\* fs.writeFileSync(jsonPath, ...)
WriteA ==
    /\ prog = "A" /\ pc = "write"
    /\ jsonA' = jsonA \cup {checkpointName}
    /\ pc' = After("write")
    /\ UNCHANGED <<prog, courseFolder, checkpointName, dirs, registry, htmlFiles,
                   jsonFiles, htmlA, exitCode, stderr, pre, seeded, extracted, walkVars>>

\* the comparison is printed and the process ends with status 0
SummaryA ==
    /\ prog = "A" /\ pc = "summary"
    /\ Exit(0, "")
    /\ UNCHANGED <<prog, courseFolder, checkpointName, dirs, registry, htmlFiles,
                   jsonFiles, htmlA, jsonA, pre, seeded, extracted, walkVars>>

Next ==
    \/ PutHtmlB \/ PutHtmlA
    \/ StartB \/ EnsureB \/ CheckB \/ ExtractB \/ WriteB \/ UpdateB \/ SummaryB
    \/ StartA \/ CheckA \/ ExtractA \/ WriteA \/ SummaryA

Spec == Init /\ [][Next]_vars

----------------------------------------------------------------------------
(* The document.  A display-question block as the callback sees it:        *)
(*   qt      it has a .question_text element                               *)
(*   text    that element's text outside its badge                         *)
(*   badge   the first .answer-source-badge inside .question_text          *)
(*   img     the src of the first img inside .question_text                *)
(*   labels  its .answer_label elements: the text outside their badges,    *)
(*           the parent element, whether the label holds a                 *)
(*           .correct-answer-badge                                         *)
(*   matchLabels, options   the texts of its `.pull-left label` and        *)
(*           `select option` elements                                      *)
MaxLabels == 2
MaxMatch == 1
MaxOptions == 2
MaxBlocks == 2

Whitespace == {" "}

RECURSIVE TrimStart(_)
TrimStart(s) ==
    IF s # <<>> /\ Head(s) \in Whitespace THEN TrimStart(Tail(s)) ELSE s

RECURSIVE TrimEnd(_)
TrimEnd(s) ==
    IF s # <<>> /\ s[Len(s)] \in Whitespace THEN TrimEnd(SubSeq(s, 1, Len(s) - 1)) ELSE s

\* String.prototype.trim
Trim(s) == TrimEnd(TrimStart(s))

\* String.prototype.toLowerCase, word by word
ToLowerCase(w) ==
    CASE w = "Wrong" -> "wrong"
      [] w = "New" -> "new"
      [] w = "Answer" -> "answer"
      [] w = "Verified" -> "verified"
      [] OTHER -> w

NoBadge == [present |-> FALSE, classes |-> {}, text |-> <<>>]
SourceBadges ==
    { NoBadge,
      [present |-> TRUE, classes |-> {"answer-source-badge", "new-source"}, text |-> <<"New">>],
      [present |-> TRUE, classes |-> {"answer-source-badge"}, text |-> <<"Wrong", " ", "Answer">>],
      [present |-> TRUE, classes |-> {"answer-source-badge"}, text |-> <<"Verified">>] }

NoImg == ""
Imgs == {NoImg, "fig.png"}
QuestionTexts == { <<" ", "Q", "?", " ">> }
Containers == {"p1", "p2"}
LabelTexts == { <<" ">>, <<"a">>, <<" ", "b", " ">> }
MatchTexts == { <<" ">>, <<"a">>, <<"b", " ">> }
Placeholder == <<"[", " ", "Choose", " ", "]">>
OptionTexts == { <<>>, <<" ">> \o Placeholder, <<"a">>, <<" ", "b">> }

Labels == [text : LabelTexts, parent : Containers, correctBadge : BOOLEAN]

SeqsUpTo(S, lo, hi) == UNION { [1..n -> S] : n \in lo..hi }

Heads ==
    [qt : {TRUE}, text : QuestionTexts, badge : SourceBadges, img : Imgs]
    \cup [qt : {FALSE}, text : {<<>>}, badge : {NoBadge}, img : {NoImg}]

Bodies ==
    \* multiple-choice blocks
    [labels : SeqsUpTo(Labels, 1, MaxLabels), matchLabels : {<<>>}, options : {<<>>}]
    \* matching blocks
    \cup [labels : {<<>>}, matchLabels : SeqsUpTo(MatchTexts, 0, MaxMatch),
          options : SeqsUpTo(OptionTexts, 0, MaxOptions)]
    \* blocks with one answer label beside a matching structure
    \cup [labels : SeqsUpTo(Labels, 1, 1), matchLabels : {<< <<"b">> >>},
          options : {<< <<"a">> >>}]

Block(h, b) ==
    [qt |-> h.qt, text |-> h.text, badge |-> h.badge, img |-> h.img,
     labels |-> b.labels, matchLabels |-> b.matchLabels, options |-> b.options]

Blocks == { Block(h, b) : h \in Heads, b \in Bodies }

\* the blocks the longer documents are made of
WalkBlocks ==
    LET head(bd, im) == [qt |-> TRUE, text |-> <<" ", "Q", "?", " ">>, badge |-> bd, img |-> im]
        lab(t, p, c) == [text |-> t, parent |-> p, correctBadge |-> c]
        plain(ls) == [labels |-> ls, matchLabels |-> <<>>, options |-> <<>>]
        wrong == CHOOSE bd \in SourceBadges : bd.present /\ bd.text[1] = "Wrong"
    IN  { Block(head(NoBadge, NoImg),
                plain(<< lab(<<"a">>, "p1", TRUE), lab(<<" ", "b", " ">>, "p2", FALSE) >>)),
          Block(head(wrong, "fig.png"), plain(<< lab(<<"a">>, "p1", TRUE) >>)),
          Block(head(NoBadge, NoImg), plain(<< lab(<<" ", "b", " ">>, "p1", FALSE) >>)),
          Block([qt |-> FALSE, text |-> <<>>, badge |-> NoBadge, img |-> NoImg],
                plain(<< lab(<<"a">>, "p1", TRUE) >>)),
          Block(head(NoBadge, NoImg),
                [labels |-> <<>>, matchLabels |-> << <<"a">> >>,
                 options |-> << Placeholder, <<"a">>, <<" ", "b">> >>]) }

Docs ==
    { <<q>> : q \in Blocks } \cup SeqsUpTo(WalkBlocks, 0, MaxBlocks)

----------------------------------------------------------------------------
(* The forEach callback.                                                   *)

\* where a callback may throw: the .question_text lookup, the reading of the
\* question text, badge and image, the reading of the choices, the building
\* of the record
FaultPoints == {"none", "lookup", "text", "choices", "answer"}

\* sourceBadge && sourceBadge.classList.contains('new-source')
IsNewQuestion(q) == q.badge.present /\ "new-source" \in q.badge.classes

IsWrongAnswerCaseSensitive(q) ==
    q.badge.present /\ \E k \in DOMAIN q.badge.text : q.badge.text[k] = "wrong"

\* sourceBadge && sourceBadge.textContent.toLowerCase().includes('wrong')
IsWrongAnswer(q) ==
    q.badge.present /\ \E k \in DOMAIN q.badge.text : ToLowerCase(q.badge.text[k]) = "wrong"

\* clone .question_text, remove the badge, textContent.trim()
QuestionText(q) == Trim(q.text)

\* clone the label, remove its badges, textContent.trim()
ChoiceText(l) == Trim(l.text)

CorrectBadgeAnywhere(q, l) ==
    \E k \in DOMAIN q.labels : q.labels[k].correctBadge

\* answerLabel.parentElement.querySelector('.correct-answer-badge'): a badge in
\* the parent's subtree, that is in any label with the same parent
CorrectBadge(q, l) ==
    \E k \in DOMAIN q.labels :
        q.labels[k].parent = l.parent /\ q.labels[k].correctBadge

RECURSIVE LabelPass(_, _, _, _)
\* answerLabels.forEach from label k on; acc = [choices, correctAnswers];
\* honour = variant A, or variant B's !isNewQuestion && !isWrongAnswer
LabelPass(q, k, honour, acc) ==
    IF k > Len(q.labels) THEN acc
    ELSE LET l == q.labels[k]
             choiceText == ChoiceText(l)
         IN  IF choiceText # <<>>
             THEN LabelPass(q, k + 1, honour,
                    [choices |-> Append(acc.choices, choiceText),
                     correctAnswers |->
                        IF honour /\ CorrectBadge(q, l)
                        THEN Append(acc.correctAnswers, choiceText)
                        ELSE acc.correctAnswers])
             ELSE LabelPass(q, k + 1, honour, acc)

RECURSIVE MatchingPass(_, _, _)
\* matchingLabels.forEach: if (text) choices.push(text)
MatchingPass(q, k, choices) ==
    IF k > Len(q.matchLabels) THEN choices
    ELSE LET text == Trim(q.matchLabels[k])
         IN  MatchingPass(q, k + 1, IF text # <<>> THEN Append(choices, text) ELSE choices)

Includes(choices, text) == \E n \in DOMAIN choices : choices[n] = text

OptionKeptNoDedup(choices, text) == text # <<>> /\ text # Placeholder

\* text && text !== '[ Choose ]' && !choices.includes(text)
OptionKept(choices, text) ==
    text # <<>> /\ text # Placeholder /\ ~Includes(choices, text)

RECURSIVE OptionPass(_, _, _)
\* selectOptions.forEach
OptionPass(q, k, choices) ==
    IF k > Len(q.options) THEN choices
    ELSE LET text == Trim(q.options[k])
         IN  OptionPass(q, k + 1,
                        IF OptionKept(choices, text) THEN Append(choices, text) ELSE choices)

Empty == [choices |-> <<>>, correctAnswers |-> <<>>]

\* variant A: every answer label is read, nothing else
CollectA(q) == LabelPass(q, 1, TRUE, Empty)

\* variant B: the answer labels, or the matching structure when there are none
CollectB(q) ==
    IF Len(q.labels) > 0
    THEN LabelPass(q, 1, ~IsNewQuestion(q) /\ ~IsWrongAnswer(q), Empty)
    ELSE [choices |-> OptionPass(q, 1, MatchingPass(q, 1, <<>>)), correctAnswers |-> <<>>]

\* questionObj.answer = ""
Blank == [array |-> FALSE, val |-> <<>>]

AnswerFirstOnly(correctAnswers) == [array |-> FALSE, val |-> correctAnswers[1]]

\* correctAnswers.length > 1 ? correctAnswers : correctAnswers[0]
AnswerOf(correctAnswers) ==
    IF Len(correctAnswers) > 1
    THEN [array |-> TRUE, val |-> correctAnswers]
    ELSE [array |-> FALSE, val |-> correctAnswers[1]]

\* questionObj: img is set only when there is a src
Record(q, choices, answer) ==
    IF q.img # NoImg
    THEN [question |-> QuestionText(q), img |-> q.img, choices |-> choices, answer |-> answer]
    ELSE [question |-> QuestionText(q), choices |-> choices, answer |-> answer]

\* if (correctAnswers.length > 0 && choices.length > 0)
EmitA(c) == Len(c.correctAnswers) > 0 /\ Len(c.choices) > 0

EmitBAlways(c) == TRUE

\* if (choices.length > 0)
EmitB(c) == Len(c.choices) > 0

\* if (isNewQuestion || isWrongAnswer || correctAnswers.length === 0) answer = ""
AnswerB(q, c) ==
    IF IsNewQuestion(q) \/ IsWrongAnswer(q) \/ Len(c.correctAnswers) = 0
    THEN Blank
    ELSE AnswerOf(c.correctAnswers)

Threw == [threw |-> TRUE, push |-> <<>>]
Returned(recs) == [threw |-> FALSE, push |-> recs]

PushThenAnswer(q, c, f, answer) ==
    IF f = "answer"
    THEN [threw |-> TRUE, push |-> <<[question |-> QuestionText(q), choices |-> c.choices]>>]
    ELSE Returned(<<Record(q, c.choices, answer)>>)

\* the record is built, and pushed by the last statement of the try block
BuildAndPush(q, c, f, answer) ==
    IF f = "answer" THEN Threw ELSE Returned(<<Record(q, c.choices, answer)>>)

\* variant A's callback on block q when the step named f throws
CallbackA(q, f) ==
    IF f = "lookup" THEN Threw
    ELSE IF ~q.qt THEN Returned(<<>>)
    ELSE IF f \in {"text", "choices"} THEN Threw
    ELSE LET c == CollectA(q)
         IN  IF EmitA(c)
             THEN BuildAndPush(q, c, f, AnswerOf(c.correctAnswers))
             ELSE Returned(<<>>)

\* variant B's callback on block q when the step named f throws
CallbackB(q, f) ==
    IF f = "lookup" THEN Threw
    ELSE IF ~q.qt THEN Returned(<<>>)
    ELSE IF f \in {"text", "choices"} THEN Threw
    ELSE LET c == CollectB(q)
         IN  IF EmitB(c)
             THEN BuildAndPush(q, c, f, AnswerB(q, c))
             ELSE Returned(<<>>)

\* catch (error) { console.error(...) }: forEach goes on
AfterCallback(threw) == "walk"

fileIdle ==
    /\ prog = "-" /\ pc = "idle" /\ courseFolder = Missing /\ checkpointName = Missing
    /\ seeded = FALSE /\ registry = NoRegistry
    /\ dirs = {} /\ htmlFiles = {} /\ jsonFiles = {} /\ htmlA = {} /\ jsonA = {}
    /\ exitCode = -1 /\ stderr = "" /\ extracted = FALSE
    /\ pre = [dirs |-> {}, registry |-> NoRegistry, jsonFiles |-> {}, jsonA |-> {}]

\* the document is loaded, extractedQuestions = []
InitWalk ==
    /\ fileIdle
    /\ variant \in {"A", "B"}
    /\ doc \in Docs
    /\ idx = 0 /\ faulted = <<>> /\ pushed = <<>>
    /\ extractedQuestions = <<>>
    /\ outFile = [written |-> FALSE, content |-> <<>>]
    /\ wpc = "walk"

Visit(r) ==
    /\ extractedQuestions' = extractedQuestions \o r.push
    /\ faulted' = Append(faulted, r.threw)
    /\ pushed' = Append(pushed, Len(r.push))
    /\ idx' = idx + 1
    /\ wpc' = AfterCallback(r.threw)
    /\ UNCHANGED <<variant, doc, outFile, fileVars>>

\* one call of variant A's forEach callback
ProcessQuestionA ==
    /\ variant = "A" /\ wpc = "walk" /\ idx < Len(doc)
    /\ \E f \in FaultPoints : Visit(CallbackA(doc[idx + 1], f))

\* one call of variant B's forEach callback
ProcessQuestionB ==
    /\ variant = "B" /\ wpc = "walk" /\ idx < Len(doc)
    /\ \E f \in FaultPoints : Visit(CallbackB(doc[idx + 1], f))

\* fs.writeFileSync(jsonPath, JSON.stringify(extractedQuestions, null, 2))
WriteJson ==
    /\ wpc = "walk" /\ idx = Len(doc)
    /\ outFile' = [written |-> TRUE, content |-> extractedQuestions]
    /\ wpc' = "written"
    /\ UNCHANGED <<variant, doc, idx, faulted, pushed, extractedQuestions, fileVars>>

NextWalk == ProcessQuestionA \/ ProcessQuestionB \/ WriteJson

SpecWalk == InitWalk /\ [][NextWalk]_vars

----------------------------------------------------------------------------
(* What the claims speak of, stated on the document itself.                *)

RECURSIVE SumTo(_, _)
SumTo(sq, n) == IF n = 0 THEN 0 ELSE sq[n] + SumTo(sq, n - 1)

\* the blocks visited so far for which a record was appended
Emitted == { i \in 1..idx : pushed[i] = 1 }

\* the record appended for block i
RecOf(i) == extractedQuestions[SumTo(pushed, i)]

\* an answer as the sequence of its elements
AnswerSeq(rec) == IF rec.answer.array THEN rec.answer.val ELSE <<rec.answer.val>>

\* the container (parent element) p of block q carries a correct-answer badge
CarriesBadge(q, p) ==
    \E k \in DOMAIN q.labels : q.labels[k].parent = p /\ q.labels[k].correctBadge

IsChoice(l) == Trim(l.text) # <<>>
TextsOf(ls) == [k \in DOMAIN ls |-> Trim(ls[k].text)]

\* the choices of block q, and those whose container carries the badge
ChoiceLabels(q) == SelectSeq(q.labels, IsChoice)
BadgedChoices(q) ==
    LET badged(l) == IsChoice(l) /\ CarriesBadge(q, l.parent)
    IN  SelectSeq(q.labels, badged)

\* the source badge marks the question as new or as wrong
MarksNewOrWrong(b) ==
    /\ b.present
    /\ \/ "new-source" \in b.classes
       \/ \E k \in DOMAIN b.text : ToLowerCase(b.text[k]) = "wrong"

NoFault(i) == ~faulted[i]

C1_Case(i) == variant = "A" /\ NoFault(i)

C1_Holds(i) ==
    /\ (i \in Emitted) <=> (BadgedChoices(doc[i]) # <<>>)
    /\ i \in Emitted => AnswerSeq(RecOf(i)) = TextsOf(BadgedChoices(doc[i]))

\* C1 as stated: in variant A, for every display-question block whose callback
\* did not throw, a record is emitted if and only if some choice's container
\* carries a correct-answer badge, and the answer is made of exactly those
\* choices.
C1_AsStated == \A i \in 1..idx : C1_Case(i) => C1_Holds(i)

\* C1 amended: the same for every block that has a .question_text element; a
\* block without one is skipped whatever its badges.
C1_Strict == \A i \in 1..idx : (C1_Case(i) /\ doc[i].qt) => C1_Holds(i)

\* a record of variant A from a block that also has a choice in a container
\* without the badge
C1_Witness ==
    \E i \in Emitted :
        /\ C1_Case(i) /\ doc[i].qt
        /\ \E k \in DOMAIN doc[i].labels :
              IsChoice(doc[i].labels[k]) /\ ~CarriesBadge(doc[i], doc[i].labels[k].parent)

\* C2: in variant B, an emitted record whose question's source badge marks it
\* new or wrong has the empty string as its answer, whatever correct-answer
\* badges its choices carry.
C2_BlankWhenNewOrWrong ==
    variant = "B" =>
        \A i \in Emitted : MarksNewOrWrong(doc[i].badge) => RecOf(i).answer = Blank

\* a record of a "wrong" question that has a badged choice
C2_Witness ==
    /\ variant = "B"
    /\ \E i \in Emitted :
          /\ MarksNewOrWrong(doc[i].badge)
          /\ "new-source" \notin doc[i].badge.classes
          /\ BadgedChoices(doc[i]) # <<>>

RecordHasChoices(rec) ==
    /\ Len(rec.choices) > 0
    /\ \A n \in DOMAIN rec.choices : rec.choices[n] # <<>>

\* C3: in both variants every emitted record, and every record of the written
\* file, has at least one choice and no empty choice string.
C3_ChoicesNonEmpty ==
    /\ \A n \in DOMAIN extractedQuestions : RecordHasChoices(extractedQuestions[n])
    /\ \A n \in DOMAIN outFile.content : RecordHasChoices(outFile.content[n])

\* a written record that came through variant B's matching-question fallback
C3_Witness ==
    /\ variant = "B" /\ wpc = "written"
    /\ \E i \in Emitted : doc[i].labels = <<>> /\ Len(RecOf(i).choices) > 1

\* what block i yields when nothing throws
Faultless(i) ==
    IF variant = "A" THEN CallbackA(doc[i], "none").push ELSE CallbackB(doc[i], "none").push

RECURSIVE ExpectedUpTo(_)
\* the records of the first n blocks, those of the blocks that threw left out
ExpectedUpTo(n) ==
    IF n = 0 THEN <<>>
    ELSE ExpectedUpTo(n - 1) \o (IF faulted[n] THEN <<>> ELSE Faultless(n))

\* C4: a block whose callback throws appends nothing, the walk goes on to the
\* next block, and the records (in the end the written file) are, in document
\* order, those of the blocks that did not throw.
C4_FaultSkipsOnlyItsBlock ==
    /\ wpc \in {"walk", "written"}
    /\ \A i \in 1..idx : faulted[i] => pushed[i] = 0
    /\ extractedQuestions = ExpectedUpTo(idx)
    /\ wpc = "written" => idx = Len(doc) /\ outFile.content = ExpectedUpTo(Len(doc))

\* a written file with a record after a block that threw and would otherwise
\* have given a record
C4_Witness ==
    /\ wpc = "written"
    /\ \E i \in 1..idx, j \in Emitted :
          i < j /\ faulted[i] /\ Faultless(i) # <<>>

\* the fallback's label part and option part of block q
FallbackLabels(q) ==
    LET kept(t) == Trim(t) # <<>>
        ls == SelectSeq(q.matchLabels, kept)
    IN  [k \in DOMAIN ls |-> Trim(ls[k])]
OptionTextsOf(q) == [k \in DOMAIN q.options |-> Trim(q.options[k])]
Eligible(q, t) ==
    t # <<>> /\ t # Placeholder /\ \A k \in DOMAIN FallbackLabels(q) : FallbackLabels(q)[k] # t
FirstAt(sq, t) == CHOOSE k \in DOMAIN sq : sq[k] = t /\ \A h \in 1..(k - 1) : sq[h] # t

C7_Fallback(q, choices) ==
    LET ls == FallbackLabels(q)
        os == OptionTextsOf(q)
        rest == SubSeq(choices, Len(ls) + 1, Len(choices))
    IN  /\ Len(choices) >= Len(ls)
        /\ SubSeq(choices, 1, Len(ls)) = ls
        /\ \A n \in DOMAIN rest :
              /\ Eligible(q, rest[n])
              /\ \E k \in DOMAIN os : os[k] = rest[n]
              /\ \A m \in DOMAIN rest : m # n => rest[m] # rest[n]
              /\ \A m \in DOMAIN rest : m < n => FirstAt(os, rest[m]) < FirstAt(os, rest[n])
        /\ \A k \in DOMAIN os :
              Eligible(q, os[k]) => \E n \in DOMAIN rest : rest[n] = os[k]

\* C7: in variant B a record of a block without answer labels has as choices
\* the non-empty pull-left label texts in order, then the option texts in
\* order, each once, without the empty ones, the placeholder and those already
\* among the choices; a block with answer labels takes nothing from there.
C7_MatchingFallback ==
    variant = "B" =>
        \A i \in Emitted :
            IF doc[i].labels = <<>>
            THEN C7_Fallback(doc[i], RecOf(i).choices)
            ELSE RecOf(i).choices = TextsOf(ChoiceLabels(doc[i]))

\* a fallback record where one option was already a label text and another
\* option was added
C7_Witness ==
    /\ variant = "B"
    /\ \E i \in Emitted :
          LET q == doc[i] IN
          /\ q.labels = <<>>
          /\ \E k \in DOMAIN q.options, n \in DOMAIN FallbackLabels(q) :
                Trim(q.options[k]) = FallbackLabels(q)[n]
          /\ Len(RecOf(i).choices) > Len(FallbackLabels(q))

\* C8: in both variants a non-blank answer is the choices marked correct, in
\* document order: a string when there is one, an array when there are more;
\* each element is one of the record's choices.
C8_AnswerIsMarkedChoices ==
    \A i \in Emitted :
        LET rec == RecOf(i)
            marked == TextsOf(BadgedChoices(doc[i]))
        IN  rec.answer # Blank =>
              /\ Len(marked) >= 1
              /\ rec.answer.array <=> Len(marked) > 1
              /\ AnswerSeq(rec) = marked
              /\ \A n \in DOMAIN marked : \E m \in DOMAIN rec.choices : rec.choices[m] = marked[n]

\* a record whose answer is an array of two choices
C8_Witness ==
    \E i \in Emitted :
        /\ RecOf(i).answer.array
        /\ Len(RecOf(i).answer.val) = 2

----------------------------------------------------------------------------
(* The claims about the files.                                             *)

\* the process stopped at a fatal precondition
Aborted == pc = "exited" /\ exitCode = 1 /\ stderr \in {"usage", "notfound"}

Running == pc \notin {"idle", "exited"}

HtmlPresent ==
    IF prog = "A" THEN checkpointName \in htmlA
    ELSE <<courseFolder, checkpointName>> \in htmlFiles

OutputUntouched == jsonFiles = pre.jsonFiles /\ jsonA = pre.jsonA
RegistryUntouched == registry = pre.registry /\ dirs = pre.dirs

\* C5 as stated: after an abort on a missing argument or a missing HTML file
\* no JSON file was written and the registry and the directories are as they
\* were before the run.
C5_AsStated == Aborted => (~extracted /\ OutputUntouched /\ RegistryUntouched)

\* what ensureCourseStructure may have done by the time variant B finds the
\* HTML file missing: the course's two directories, and one course entry
\* without modules when the course was not registered
OnlyCourseEnsured ==
    LET old == ReadCourses(pre.registry)
        new == ReadCourses(registry)
    IN  /\ dirs = pre.dirs \cup {<<courseFolder, "html">>, <<courseFolder, "json">>}
        /\ \/ registry = pre.registry
           \/ /\ registry.exists
              /\ \A i \in DOMAIN old : old[i].id # courseFolder
              /\ Len(new) = Len(old) + 1
              /\ SubSeq(new, 1, Len(old)) = old
              /\ new[Len(new)].id = courseFolder /\ new[Len(new)].modules = <<>>

\* C5 amended: a missing argument or a missing HTML file ends the run with a
\* non-zero exit before any extraction, and no JSON file is written and no
\* module is added; the registry and the directories are untouched, except
\* that variant B, when the HTML file is missing, has already created the
\* course's directories and (if absent) its course entry.
C5_AbortWritesNoOutput ==
    /\ Running => (IF prog = "A" THEN ~ArgsMissingA(checkpointName)
                   ELSE courseFolder # Missing /\ checkpointName # Missing)
    /\ (extracted \/ (pc = "exited" /\ exitCode = 0)) => HtmlPresent
    /\ Aborted =>
          /\ ~extracted /\ OutputUntouched
          /\ (prog = "A" \/ stderr = "usage") => RegistryUntouched
          /\ (prog = "B" /\ stderr = "notfound") => OnlyCourseEnsured

\* variant B stopped at the missing HTML file of a course it has just registered
C5_Witness ==
    /\ Aborted /\ prog = "B" /\ stderr = "notfound"
    /\ registry # pre.registry /\ dirs # pre.dirs

\* the registry and directories after ensureCourseStructure, updateCourseModule
Twice(d, reg, cf, ck) ==
    LET e == ensureCourseStructure(d, reg, cf)
    IN  [dirs |-> e.dirs, registry |-> updateCourseModule(e.registry, cf, ck)]

\* C6: from every registry and directory state, for every course and
\* checkpoint, a second ensureCourseStructure + updateCourseModule leaves the
\* registry and the directories exactly as the first left them, with the
\* course registered and the checkpoint listed.
C6_Idempotent ==
    \A cf \in CourseIds, ck \in CheckpointIds :
        LET once == Twice(dirs, registry, cf, ck)
            again == Twice(once.dirs, once.registry, cf, ck)
        IN  /\ again = once
            /\ CourseExists(once.registry.courses, cf)
            /\ CheckpointExists(
                  once.registry.courses[FirstCourse(once.registry.courses, cf)].modules, ck)

\* after some run has written the registry, a first call still adds a course,
\* a module and directories
C6_Witness ==
    /\ registry.exists /\ pc = "exited" /\ exitCode = 0
    /\ \E cf \in CourseIds, ck \in CheckpointIds :
          LET once == Twice(dirs, registry, cf, ck)
          IN  /\ once.dirs # dirs
              /\ Len(once.registry.courses) > Len(registry.courses)

ListsCheckpoint(modules, ck) ==
    \E j \in DOMAIN modules :
        \E n \in DOMAIN modules[j].checkpoints : modules[j].checkpoints[n] = ck

\* m is the one module updateCourseModule may append to `modules` for ck
IsNewModule(modules, m, ck) ==
    /\ m.checkpoints = <<ck>>
    /\ \A j \in DOMAIN modules : m.id > modules[j].id
    /\ m.id = 1 \/ \E j \in DOMAIN modules : m.id = modules[j].id + 1

\* between registries r and r2 nothing changed but, at most, one module
\* appended to the first course cf, and that exactly when cf listed ck nowhere
AppendOnly(r, r2, cf, ck) ==
    /\ r2.exists = r.exists
    /\ Len(r2.courses) = Len(r.courses)
    /\ \A i \in DOMAIN r.courses :
          LET c == r.courses[i]
              c2 == r2.courses[i]
              first == c.id = cf /\ \A h \in 1..(i - 1) : r.courses[h].id # cf
          IN  /\ c2.id = c.id /\ c2.name = c.name
              /\ IF first /\ ~ListsCheckpoint(c.modules, ck)
                 THEN /\ Len(c2.modules) = Len(c.modules) + 1
                      /\ SubSeq(c2.modules, 1, Len(c.modules)) = c.modules
                      /\ IsNewModule(c.modules, c2.modules[Len(c2.modules)], ck)
                 ELSE c2.modules = c.modules

DistinctModuleIds ==
    \A i \in DOMAIN registry.courses :
        LET ms == registry.courses[i].modules
        IN  \A j, k \in DOMAIN ms : j # k => ms[j].id # ms[k].id

\* C9: the updateCourseModule step leaves every course and module entry as it
\* was and appends one module, with id max + 1 (1 when there is none), exactly
\* when the checkpoint is listed in no module of the course; starting without
\* a registry, the module ids of a course stay pairwise distinct.
C9_AppendOnly ==
    /\ [][pc = "update" => AppendOnly(registry, registry', courseFolder, checkpointName)]_vars
    /\ [](~seeded => DistinctModuleIds)

\* a course that got its second module
C9_Witness ==
    /\ ~seeded
    /\ \E i \in DOMAIN registry.courses : Len(registry.courses[i].modules) = 2

\* C10: starting without a registry, every checkpoint listed in a module of a
\* course has its written JSON file, at every point of every run.
C10_ListedCheckpointHasJson ==
    ~seeded =>
        \A i \in DOMAIN registry.courses :
            \A j \in DOMAIN registry.courses[i].modules :
                LET m == registry.courses[i].modules[j]
                IN  \A n \in DOMAIN m.checkpoints :
                        <<registry.courses[i].id, m.checkpoints[n]>> \in jsonFiles

\* a run that stopped at a missing HTML file after another run listed a module
C10_Witness ==
    /\ ~seeded /\ Aborted /\ stderr = "notfound"
    /\ \E i \in DOMAIN registry.courses : Len(registry.courses[i].modules) > 0

====
